---- MODULE Spec2Model ----
(***************************************************************************)
(* The ledger of src/bot.py: the Database class (users, gmail_submissions, *)
(* withdrawals, promo_codes, settings) and the GmailBuyBot handlers that   *)
(* drive it.  Money is REAL in the schema; every amount the model uses is  *)
(* a whole number of taka, for which the arithmetic of the code is exact,  *)
(* or NULL, which is what float('nan') and None are stored as.             *)
(* The Database methods are pure operators from a database value to the    *)
(* new database value and the method's return value; each action applies   *)
(* one handler or one Database method as a whole (no handler awaits        *)
(* between two statements of a Database method, and each method commits    *)
(* before it returns).                                                     *)
(***************************************************************************)
EXTENDS Integers, Sequences, FiniteSets, TLC

VARIABLES
    users,              \* table users: user_id -> row (DOMAIN = the rows present)
    gmail_submissions,  \* table gmail_submissions: sequence, id = index (AUTOINCREMENT)
    withdrawals,        \* table withdrawals: sequence, id = index (AUTOINCREMENT)
    promo_codes,        \* table promo_codes: code -> row
    settings,           \* table settings: key -> value TEXT
    conv,               \* per user, the state of each ConversationHandler
    user_data,          \* per user, context.user_data (a dict)
    last,               \* the handler or method the last step ran, and its outcome
    audit,              \* history: what each review / redemption did to the ledger
    inflight,           \* per user, the redemption update that waits for its handler
    now                 \* the clock datetime.now() reads, in hours

vars == <<users, gmail_submissions, withdrawals, promo_codes, settings,
          conv, user_data, last, audit, inflight, now>>

-----------------------------------------------------------------------------
(* Bounds of the model *)

\* number of update_gmail_status and update_withdrawal_status calls explored
\* in one run
MaxReviews == 3
\* number of withdrawal rows explored
MaxWithdrawals == 1

\* the hours the clock runs to, and the steps it advances by
MaxHours == 48
Ticks == {12}
\* the microsecond of a datetime.now()
Microseconds == {0, 250000}

\* Telegram users that talk to the bot
UserIds == {1, 2}
\* the users among them that sell Gmails and ask for withdrawals
Sellers == {1}
\* texts a user sends as a Gmail address, a password
GmailTexts == {"a@gmail.com"}
PasswordTexts == {"pw"}
\* and the texts of the users that submit the same Gmail
SubmitTexts == {"a@gmail.com", "b@gmail.com"}
SubmitPasswords == {"pw", "pw2"}
\* texts a user sends as a withdrawal amount
WithdrawTexts == {"50", "155", "abc"}
\* code arguments of create_promo_code and use_promo_code
\* results of generate_referral_code: FirstCode[u] is the one drawn at every
\* /start of user u where the draw is not varied
ReferralCodes == {"K7Q2M9XA", "B4T8ZP3C"}
FirstCode == [u \in UserIds |-> IF u = 1 THEN "K7Q2M9XA" ELSE "B4T8ZP3C"]
PromoCodes == {"SAVE10"}
RedeemCodes == {"SAVE10", "NOPE"}
\* texts a user sends as a promo code
RedeemTexts == {" save10", "NOPE"}
PromoAmounts == {150}
PromoLimits == {-1, 0, 1, 2}
\* arguments of update_setting
SettingKeys == {"min_withdraw", "gmail_price"}
SettingValues == {200}
\* status arguments of the two review methods
GmailStatuses == {"success", "pending", "rejected"}
WithdrawStatuses == {"success", "rejected"}

-----------------------------------------------------------------------------
(* Program constants *)

\* Config.ADMIN_IDS, from the environment
ADMIN_IDS == {1}
\* the literal 100 of enter_withdraw_amount
HARD_MIN_WITHDRAW == 100

END == "END"
ENTER_GMAIL == "ENTER_GMAIL"
ENTER_PASSWORD == "ENTER_PASSWORD"
ENTER_WITHDRAW_AMOUNT == "ENTER_WITHDRAW_AMOUNT"
ENTER_WITHDRAW_NUMBER == "ENTER_WITHDRAW_NUMBER"
ENTER_GMAIL_ID == "ENTER_GMAIL_ID"
SELECT_GMAIL_ACTION == "SELECT_GMAIL_ACTION"
ENTER_WITHDRAW_ID == "ENTER_WITHDRAW_ID"
SELECT_WITHDRAW_ACTION == "SELECT_WITHDRAW_ACTION"
ADMIN_USER_ACTION_SELECT == "ADMIN_USER_ACTION_SELECT"
ADMIN_EDIT_SETTING_VAL == "ADMIN_EDIT_SETTING_VAL"
ADMIN_CREATE_PROMO_CODE == "ADMIN_CREATE_PROMO_CODE"
ADMIN_PROMO_AMOUNT == "ADMIN_PROMO_AMOUNT"
ADMIN_PROMO_LIMIT == "ADMIN_PROMO_LIMIT"
\* a handler that returns the Message of reply_text leaves the conversation in
\* a state no handler is registered for
MessageState == "Message"

-----------------------------------------------------------------------------
(* Conversions *)

\* None, and a value v, as a method returns them
None == <<>>
Some(v) == <<v>>

\* SQL NULL in a numeric column, read back as Python's None.  float('nan') is
\* bound as NULL by sqlite3, so the nan of float(text) is this value too.
\* No amount, balance or count of the program is this number.
NULL == 0 - 1000000

\* the value a method's result r binds as an SQL parameter: None is NULL
Param(r) == IF r = None THEN NULL ELSE Head(r)

\* a + b in SQL and in Python floats: NULL and nan are absorbing
Plus(a, b) == IF a = NULL \/ b = NULL THEN NULL ELSE a + b

\* -a
Neg(a) == IF a = NULL THEN NULL ELSE 0 - a

\* float(text): the texts that parse
IsFloat(text) == text \in {"2.0", "5.0", "50", "100.0", "155", "200.0", "nan"}

float(text) ==
    CASE text = "2.0" -> 2
      [] text = "5.0" -> 5
      [] text = "50" -> 50
      [] text = "100.0" -> 100
      [] text = "155" -> 155
      [] text = "200.0" -> 200
      [] text = "nan" -> NULL

\* str(value) of a float
str(value) ==
    CASE value = 2 -> "2.0"
      [] value = 5 -> "5.0"
      [] value = 100 -> "100.0"
      [] value = 200 -> "200.0"

\* a datetime bound as an SQL parameter: sqlite3's adapter stores
\* isoformat(" "), 'YYYY-MM-DD HH:MM:SS' followed by '.ffffff' unless the
\* microsecond is 0; the column is read back as that text
adapt_datetime(dt) ==
    [date_time |-> dt.hours, fraction |-> dt.microsecond]

\* datetime.strptime(text, '%Y-%m-%d %H:%M:%S'): a text with a fraction leaves
\* unconverted data and raises ValueError (None here)
strptime(text) ==
    IF text.fraction = 0
    THEN Some([hours |-> text.date_time, microsecond |-> 0])
    ELSE None

\* (a - b).days
days(a, b) == (a.hours - b.hours) \div 24

\* text.strip().upper()
strip_upper(text) ==
    CASE text = " save10" -> "SAVE10"
      [] text = "NOPE" -> "NOPE"
      [] text = "free" -> "FREE"

\* int(text): the texts that parse
IsInt(text) == text \in {"1", "2", " 1"}

int(text) ==
    CASE text = "1" -> 1
      [] text = "2" -> 2
      [] text = " 1" -> 1

\* data.split('_')[-1] of the callback data set_<name>
LastPart(data) ==
    CASE data = "set_gmail_price" -> "price"
      [] data = "set_min_withdraw" -> "withdraw"
      [] data = "set_daily_bonus" -> "bonus"

\* int(data.split('_')[-1]) of the callback data adm_user_act_<id>
TargetOf(data) ==
    CASE data = "adm_user_act_1" -> 1
      [] data = "adm_user_act_2" -> 2

-----------------------------------------------------------------------------
(* The database value the methods work on *)

DB == [users |-> users, gmail_submissions |-> gmail_submissions,
       withdrawals |-> withdrawals, promo_codes |-> promo_codes,
       settings |-> settings]

-----------------------------------------------------------------------------
(* Database: users and balances *)

\* Database.get_user: the row, or None
get_user(d, user_id) ==
    IF user_id \in DOMAIN d.users THEN Some(d.users[user_id]) ELSE None

\* the row create_user inserts; ref_code is what generate_referral_code
\* returned, referred_by is NULL (start passes no referrer)
NewUser(user_id, ref_code) ==
    [balance |-> 0, gmail_sell_count |-> 0, total_withdraw |-> 0,
     is_admin |-> (user_id \in ADMIN_IDS), is_banned |-> FALSE,
     last_daily_claim |-> None, referral_code |-> ref_code, referred_by |-> None]

\* create_user with INSERT OR REPLACE
create_user_replacing(d, user_id, ref_code) ==
    [d EXCEPT !.users =
        [u \in DOMAIN d.users \cup {user_id} |->
            IF u = user_id THEN NewUser(user_id, ref_code) ELSE d.users[u]]]

\* Database.create_user: INSERT; a row with that primary key (user_id) or with
\* that referral_code (UNIQUE) makes the INSERT raise, and the bare except
\* swallows it
create_user(d, user_id, ref_code) ==
    IF \/ user_id \in DOMAIN d.users
       \/ \E v \in DOMAIN d.users : d.users[v].referral_code = ref_code
    THEN d
    ELSE [d EXCEPT !.users =
            [u \in DOMAIN d.users \cup {user_id} |->
                IF u = user_id THEN NewUser(user_id, ref_code) ELSE d.users[u]]]

\* an UPDATE that assigns the balance instead of adding to it
AddToBalance_assigning(d, user_id, delta) ==
    [d EXCEPT !.users =
        [u \in DOMAIN d.users |->
            IF u = user_id THEN [d.users[u] EXCEPT !.balance = delta]
            ELSE d.users[u]]]

\* UPDATE users SET <column> = <column> + delta WHERE user_id = ?
\* (no row with that id: the UPDATE changes nothing)
AddToBalance(d, user_id, delta) ==
    [d EXCEPT !.users =
        [u \in DOMAIN d.users |->
            IF u = user_id THEN [d.users[u] EXCEPT !.balance = Plus(@, delta)]
            ELSE d.users[u]]]

AddToSellCount(d, user_id, delta) ==
    [d EXCEPT !.users =
        [u \in DOMAIN d.users |->
            IF u = user_id THEN [d.users[u] EXCEPT !.gmail_sell_count = @ + delta]
            ELSE d.users[u]]]

AddToTotalWithdraw(d, user_id, delta) ==
    [d EXCEPT !.users =
        [u \in DOMAIN d.users |->
            IF u = user_id
            THEN [d.users[u] EXCEPT !.total_withdraw = Plus(@, delta)]
            ELSE d.users[u]]]

SetBanned(d, user_id, flag) ==
    [d EXCEPT !.users =
        [u \in DOMAIN d.users |->
            IF u = user_id THEN [d.users[u] EXCEPT !.is_banned = flag]
            ELSE d.users[u]]]

\* Database.ban_user / Database.unban_user
ban_user(d, user_id) == SetBanned(d, user_id, TRUE)

unban_user(d, user_id) == SetBanned(d, user_id, FALSE)

\* Database.update_balance
update_balance(d, user_id, amount) == AddToBalance(d, user_id, amount)

\* Database.get_user_balance: 0 for a user without a row
get_user_balance(d, uid) ==
    IF uid \in DOMAIN d.users THEN d.users[uid].balance ELSE 0

-----------------------------------------------------------------------------
(* Database: settings *)

\* update_setting with a new gmail_price written to the submissions as well
update_setting_repricing(d, key, value) ==
    [d EXCEPT !.settings =
                 [k \in DOMAIN d.settings \cup {key} |->
                     IF k = key THEN str(value) ELSE d.settings[k]],
              !.gmail_submissions =
                 [i \in DOMAIN d.gmail_submissions |->
                     IF key = "gmail_price"
                     THEN [d.gmail_submissions[i] EXCEPT !.amount = value]
                     ELSE d.gmail_submissions[i]]]

\* Database.update_setting: INSERT OR REPLACE, the value stored as str(value)
update_setting(d, key, value) ==
    [d EXCEPT !.settings =
        [k \in DOMAIN d.settings \cup {key} |->
            IF k = key THEN str(value) ELSE d.settings[k]]]

\* Database.get_setting: float of the stored text, or None without a row
get_setting(d, key) ==
    IF key \in DOMAIN d.settings THEN Some(float(d.settings[key])) ELSE None

-----------------------------------------------------------------------------
(* Database: Gmail submissions *)

\* Database.get_gmail_by_id
get_gmail_by_id(d, gid) ==
    IF gid \in DOMAIN d.gmail_submissions THEN Some(d.gmail_submissions[gid]) ELSE None

\* add_gmail_submission as INSERT OR REPLACE
add_gmail_submission_replacing(d, user_id, gmail, password, amount) ==
    LET row == [user_id |-> user_id, gmail |-> gmail, password |-> password,
                amount |-> amount, status |-> "pending"]
    IN IF \E i \in DOMAIN d.gmail_submissions : d.gmail_submissions[i].gmail = gmail
       THEN [db |-> [d EXCEPT !.gmail_submissions =
                       [i \in DOMAIN @ |-> IF @[i].gmail = gmail THEN row ELSE @[i]]],
             ret |-> TRUE]
       ELSE [db |-> [d EXCEPT !.gmail_submissions = Append(@, row)], ret |-> TRUE]

\* Database.add_gmail_submission: gmail is UNIQUE, a second row with it makes
\* the INSERT raise, and the method returns False
add_gmail_submission(d, user_id, gmail, password, amount) ==
    IF \E i \in DOMAIN d.gmail_submissions : d.gmail_submissions[i].gmail = gmail
    THEN [db |-> d, ret |-> FALSE]
    ELSE [db |-> [d EXCEPT !.gmail_submissions =
                    Append(@, [user_id |-> user_id, gmail |-> gmail,
                               password |-> password, amount |-> amount,
                               status |-> "pending"])],
          ret |-> TRUE]

\* update_gmail_status with a reversal on every way out of 'success'
update_gmail_status_requeue_reverses(d, gid, status) ==
    IF get_gmail_by_id(d, gid) = None
    THEN [db |-> d, ret |-> FALSE]
    ELSE LET g == d.gmail_submissions[gid]
             d1 == [d EXCEPT !.gmail_submissions[gid].status = status]
             d2 == IF status = "success"
                   THEN AddToSellCount(update_balance(d1, g.user_id, g.amount),
                                       g.user_id, 1)
                   ELSE IF g.status = "success"
                   THEN AddToSellCount(update_balance(d1, g.user_id, Neg(g.amount)),
                                       g.user_id, 0 - 1)
                   ELSE d1
         IN [db |-> d2, ret |-> TRUE]

\* update_gmail_status with a reversal at the gmail_price of the moment
update_gmail_status_at_price(d, gid, status) ==
    IF get_gmail_by_id(d, gid) = None
    THEN [db |-> d, ret |-> FALSE]
    ELSE LET g == d.gmail_submissions[gid]
             price == Head(get_setting(d, "gmail_price"))
             d1 == [d EXCEPT !.gmail_submissions[gid].status = status]
             d2 == IF status = "success"
                   THEN AddToSellCount(update_balance(d1, g.user_id, g.amount),
                                       g.user_id, 1)
                   ELSE IF status = "rejected" /\ g.status = "success"
                   THEN AddToSellCount(update_balance(d1, g.user_id, 0 - price),
                                       g.user_id, 0 - 1)
                   ELSE d1
         IN [db |-> d2, ret |-> TRUE]

\* update_gmail_status that writes the status to the newest submission when
\* no submission has the id
update_gmail_status_newest(d, gid, status) ==
    IF get_gmail_by_id(d, gid) = None
    THEN [db |-> IF d.gmail_submissions = <<>> THEN d
                 ELSE [d EXCEPT !.gmail_submissions[Len(d.gmail_submissions)].status
                                   = status],
          ret |-> FALSE]
    ELSE LET g == d.gmail_submissions[gid]
             d1 == [d EXCEPT !.gmail_submissions[gid].status = status]
             d2 == IF status = "success"
                   THEN AddToSellCount(update_balance(d1, g.user_id, g.amount),
                                       g.user_id, 1)
                   ELSE IF status = "rejected" /\ g.status = "success"
                   THEN AddToSellCount(update_balance(d1, g.user_id, Neg(g.amount)),
                                       g.user_id, 0 - 1)
                   ELSE d1
         IN [db |-> d2, ret |-> TRUE]

\* update_gmail_status that debits on every 'rejected'
update_gmail_status_debit_always(d, gid, status) ==
    IF get_gmail_by_id(d, gid) = None
    THEN [db |-> d, ret |-> FALSE]
    ELSE LET g == d.gmail_submissions[gid]
             d1 == [d EXCEPT !.gmail_submissions[gid].status = status]
             d2 == IF status = "success"
                   THEN AddToSellCount(update_balance(d1, g.user_id, g.amount),
                                       g.user_id, 1)
                   ELSE IF status = "rejected"
                   THEN AddToSellCount(update_balance(d1, g.user_id, Neg(g.amount)),
                                       g.user_id, 0 - 1)
                   ELSE d1
         IN [db |-> d2, ret |-> TRUE]

\* Database.update_gmail_status
update_gmail_status(d, gid, status) ==
    IF get_gmail_by_id(d, gid) = None
    THEN [db |-> d, ret |-> FALSE]
    ELSE LET g == d.gmail_submissions[gid]
             d1 == [d EXCEPT !.gmail_submissions[gid].status = status]
             d2 == IF status = "success"
                   THEN AddToSellCount(update_balance(d1, g.user_id, g.amount),
                                       g.user_id, 1)
                   ELSE IF status = "rejected" /\ g.status = "success"
                   THEN AddToSellCount(update_balance(d1, g.user_id, Neg(g.amount)),
                                       g.user_id, 0 - 1)
                   ELSE d1
         IN [db |-> d2, ret |-> TRUE]

-----------------------------------------------------------------------------
(* Database: withdrawals *)

\* Database.get_withdrawal_by_id
get_withdrawal_by_id(d, wid) ==
    IF wid \in DOMAIN d.withdrawals THEN Some(d.withdrawals[wid]) ELSE None

\* add_withdrawal without its balance check
add_withdrawal_unchecked(d, uid, amt) ==
    LET d1 == AddToBalance(d, uid, Neg(amt))
        d2 == [d1 EXCEPT !.withdrawals =
                   Append(@, [user_id |-> uid, amount |-> amt, status |-> "pending"])]
    IN [db |-> d2, ret |-> Some(Len(d2.withdrawals)), raised |-> FALSE]

\* add_withdrawal without its UPDATE of the balance
add_withdrawal_no_deduction(d, uid, amt) ==
    IF get_user_balance(d, uid) = NULL
    THEN [db |-> d, ret |-> None, raised |-> TRUE]
    ELSE IF amt # NULL /\ get_user_balance(d, uid) < amt
    THEN [db |-> d, ret |-> None, raised |-> FALSE]
    ELSE LET d2 == [d EXCEPT !.withdrawals =
                       Append(@, [user_id |-> uid, amount |-> amt,
                                  status |-> "pending"])]
         IN [db |-> d2, ret |-> Some(Len(d2.withdrawals)), raised |-> FALSE]

\* Database.add_withdrawal: None when the balance is below amt, else the
\* balance is reduced, the row inserted, and its rowid returned.
\* bal < amt raises TypeError when the stored balance is NULL (bal is None) and
\* is False when amt is nan.
add_withdrawal(d, uid, amt) ==
    IF get_user_balance(d, uid) = NULL
    THEN [db |-> d, ret |-> None, raised |-> TRUE]
    ELSE IF amt # NULL /\ get_user_balance(d, uid) < amt
    THEN [db |-> d, ret |-> None, raised |-> FALSE]
    ELSE LET d1 == AddToBalance(d, uid, Neg(amt))
             d2 == [d1 EXCEPT !.withdrawals =
                        Append(@, [user_id |-> uid, amount |-> amt,
                                   status |-> "pending"])]
         IN [db |-> d2, ret |-> Some(Len(d2.withdrawals)), raised |-> FALSE]

\* update_withdrawal_status with the two branches exchanged
update_withdrawal_status_swapped(d, wid, status) ==
    IF get_withdrawal_by_id(d, wid) = None
    THEN [db |-> d, ret |-> FALSE]
    ELSE LET w == d.withdrawals[wid]
             d1 == IF status = "success"
                   THEN AddToBalance(d, w.user_id, w.amount)
                   ELSE IF status = "rejected"
                   THEN AddToTotalWithdraw(d, w.user_id, w.amount)
                   ELSE d
         IN [db |-> [d1 EXCEPT !.withdrawals[wid].status = status], ret |-> TRUE]

\* Database.update_withdrawal_status
update_withdrawal_status(d, wid, status) ==
    IF get_withdrawal_by_id(d, wid) = None
    THEN [db |-> d, ret |-> FALSE]
    ELSE LET w == d.withdrawals[wid]
             d1 == IF status = "rejected"
                   THEN AddToBalance(d, w.user_id, w.amount)
                   ELSE IF status = "success"
                   THEN AddToTotalWithdraw(d, w.user_id, w.amount)
                   ELSE d
         IN [db |-> [d1 EXCEPT !.withdrawals[wid].status = status], ret |-> TRUE]

-----------------------------------------------------------------------------
(* Database: promo codes *)

\* Database.create_promo_code: code is the primary key, a second row with it
\* makes the INSERT raise, and the method returns False
create_promo_code(d, code, amount, limit) ==
    IF code \in DOMAIN d.promo_codes
    THEN [db |-> d, ret |-> FALSE]
    ELSE [db |-> [d EXCEPT !.promo_codes =
                    [c \in DOMAIN d.promo_codes \cup {code} |->
                        IF c = code
                        THEN [amount |-> amount, uses_left |-> limit,
                              is_active |-> TRUE]
                        ELSE d.promo_codes[c]]],
          ret |-> TRUE]

\* use_promo_code with a SELECT that does not look at is_active
use_promo_code_any_row(d, code, user_id) ==
    IF code \notin DOMAIN d.promo_codes
    THEN [db |-> d, ret |-> [success |-> FALSE, msg |-> "Invalid Code"]]
    ELSE IF d.promo_codes[code].uses_left <= 0
    THEN [db |-> d, ret |-> [success |-> FALSE, msg |-> "Code Expired"]]
    ELSE LET promo == d.promo_codes[code]
             d1 == [d EXCEPT !.promo_codes[code].uses_left = @ - 1]
         IN [db |-> update_balance(d1, user_id, promo.amount),
             ret |-> [success |-> TRUE, msg |-> "Success"]]

\* use_promo_code without its check of uses_left
use_promo_code_unlimited(d, code, user_id) ==
    IF ~(code \in DOMAIN d.promo_codes /\ d.promo_codes[code].is_active)
    THEN [db |-> d, ret |-> [success |-> FALSE, msg |-> "Invalid Code"]]
    ELSE LET promo == d.promo_codes[code]
             d1 == [d EXCEPT !.promo_codes[code].uses_left = @ - 1]
         IN [db |-> update_balance(d1, user_id, promo.amount),
             ret |-> [success |-> TRUE, msg |-> "Success"]]

\* Database.use_promo_code: (False, "Invalid Code"), (False, "Code Expired")
\* or (True, "Success! ...")
use_promo_code(d, code, user_id) ==
    IF ~(code \in DOMAIN d.promo_codes /\ d.promo_codes[code].is_active)
    THEN [db |-> d, ret |-> [success |-> FALSE, msg |-> "Invalid Code"]]
    ELSE IF d.promo_codes[code].uses_left <= 0
    THEN [db |-> d, ret |-> [success |-> FALSE, msg |-> "Code Expired"]]
    ELSE LET promo == d.promo_codes[code]
             d1 == [d EXCEPT !.promo_codes[code].uses_left = @ - 1]
         IN [db |-> update_balance(d1, user_id, promo.amount),
             ret |-> [success |-> TRUE, msg |-> "Success"]]

-----------------------------------------------------------------------------
(* State *)

NoData == [k \in {} |-> 0]

\* what the last step ran: the handler or method, the user it ran for, the id
\* and the text (status, code) it was given, the status its row had before,
\* and what it returned
Outcome(op, user, id, arg, pre, ret) ==
    [op |-> op, user |-> user, id |-> id, arg |-> arg, pre |-> pre, ret |-> ret]

\* the history gains a delta an operation applied to the balance of a user
\* (an UPDATE for a user without a row applies nothing)
Applied(a, user_id, delta) ==
    IF user_id \in DOMAIN users
    THEN [a EXCEPT !.ledger[user_id] = Plus(@, delta)]
    ELSE a

Init ==
    /\ users = [u \in {} |-> 0]
    /\ gmail_submissions = <<>>
    /\ withdrawals = <<>>
    /\ promo_codes = [c \in {} |-> 0]
    \* create_tables: INSERT OR IGNORE INTO settings
    /\ settings = [k \in {"min_withdraw", "gmail_price", "referral_commission",
                          "daily_bonus_amount"} |->
                     CASE k = "min_withdraw" -> "100.0"
                       [] k = "gmail_price" -> "5.0"
                       [] k = "referral_commission" -> "5.0"
                       [] k = "daily_bonus_amount" -> "2.0"]
    /\ conv = [u \in UserIds |-> [gmail |-> END, withdraw |-> END, admin |-> END]]
    /\ user_data = [u \in UserIds |-> NoData]
    /\ last = Outcome("init", 0, 0, "", "", "")
    /\ audit = [reviews |-> 0, owner_known |-> <<>>, credited |-> <<>>,
                refunded |-> <<>>, paid |-> <<>>, ledger |-> [u \in UserIds |-> 0],
                price |-> <<>>,
                limit |-> [c \in {} |-> 0], redeemed |-> [c \in {} |-> 0]]
    /\ inflight = [u \in UserIds |-> None]
    /\ now = 0

\* Database.__init__ on a database file that exists: CREATE TABLE IF NOT EXISTS
\* keeps the promo_codes rows the file holds, and a stored row has any
\* uses_left and any is_active
InitStored ==
    /\ users = [u \in {} |-> 0]
    /\ gmail_submissions = <<>>
    /\ withdrawals = <<>>
    /\ promo_codes \in {[c \in {} |-> 0]} \cup
                       [PromoCodes -> [amount : PromoAmounts, uses_left : PromoLimits,
                                       is_active : BOOLEAN]]
    /\ settings = [k \in {"min_withdraw", "gmail_price", "referral_commission",
                          "daily_bonus_amount"} |->
                     CASE k = "min_withdraw" -> "100.0"
                       [] k = "gmail_price" -> "5.0"
                       [] k = "referral_commission" -> "5.0"
                       [] k = "daily_bonus_amount" -> "2.0"]
    /\ conv = [u \in UserIds |-> [gmail |-> END, withdraw |-> END, admin |-> END]]
    /\ user_data = [u \in UserIds |-> NoData]
    /\ last = Outcome("init", 0, 0, "", "", "")
    /\ audit = [reviews |-> 0, owner_known |-> <<>>, credited |-> <<>>,
                refunded |-> <<>>, paid |-> <<>>, ledger |-> [u \in UserIds |-> 0],
                price |-> <<>>,
                limit |-> [c \in DOMAIN promo_codes |-> promo_codes[c].uses_left],
                redeemed |-> [c \in DOMAIN promo_codes |-> 0]]
    /\ inflight = [u \in UserIds |-> None]
    /\ now = 0

\* the tables become those of d
Store(d) ==
    /\ users' = d.users
    /\ gmail_submissions' = d.gmail_submissions
    /\ withdrawals' = d.withdrawals
    /\ promo_codes' = d.promo_codes
    /\ settings' = d.settings


Bool(b) == IF b THEN "True" ELSE "False"

\* user_data[key] = value
SetData(u, key, value) ==
    [user_data EXCEPT ![u] =
        [k \in DOMAIN user_data[u] \cup {key} |->
            IF k = key THEN value ELSE user_data[u][k]]]

-----------------------------------------------------------------------------
(* Dispatch: the handlers are tried in the order setup_handlers adds them, and *)
(* the first ConversationHandler with a handler for the update takes it        *)

GmailTakesText(u) == conv[u].gmail \in {ENTER_GMAIL, ENTER_PASSWORD}

WithdrawTakesText(u) ==
    conv[u].withdraw \in {ENTER_WITHDRAW_AMOUNT, ENTER_WITHDRAW_NUMBER}

\* a text reaches conv_handler_admin when neither earlier conversation takes it
AdminGetsText(u) == ~GmailTakesText(u) /\ ~WithdrawTakesText(u)

AdminTakesText(u) ==
    conv[u].admin \in {ADMIN_CREATE_PROMO_CODE, ADMIN_PROMO_AMOUNT, ADMIN_PROMO_LIMIT,
                       ENTER_GMAIL_ID, ENTER_WITHDRAW_ID}

-----------------------------------------------------------------------------
(* Handlers of GmailBuyBot *)

\* /start
start(u, ref_code) ==
    /\ Store(create_user(DB, u, ref_code))
    /\ last' = Outcome("start", u, 0, ref_code, "", "")
    /\ UNCHANGED <<conv, user_data, audit, inflight, now>>

\* callback gmail_sell, entry point of conv_handler_gmail
start_gmail_sell(u) ==
    /\ conv[u].gmail = END
    /\ conv' = [conv EXCEPT ![u].gmail = ENTER_GMAIL]
    /\ last' = Outcome("start_gmail_sell", u, 0, "", "", "")
    /\ UNCHANGED <<users, gmail_submissions, withdrawals, promo_codes, settings,
                   user_data, audit, inflight, now>>

enter_gmail(u, text) ==
    /\ conv[u].gmail = ENTER_GMAIL
    /\ user_data' = SetData(u, "temp_gmail", text)
    /\ conv' = [conv EXCEPT ![u].gmail = ENTER_PASSWORD]
    /\ last' = Outcome("enter_gmail", u, 0, "", "", "")
    /\ UNCHANGED <<users, gmail_submissions, withdrawals, promo_codes, settings,
                   audit, inflight, now>>

\* the submission is made at the price get_setting returns now; the reply is
\* "Submitted!" whatever add_gmail_submission returns
enter_password(u, text) ==
    /\ conv[u].gmail = ENTER_PASSWORD
    /\ LET r == add_gmail_submission(DB, u, user_data[u]["temp_gmail"], text,
                                     Param(get_setting(DB, "gmail_price")))
       IN /\ Store(r.db)
          /\ audit' = IF r.ret
                      THEN [audit EXCEPT !.credited = Append(@, 0),
                                         !.owner_known = Append(@, u \in DOMAIN users),
                                         !.price = Append(@, Param(get_setting(DB, "gmail_price")))]
                      ELSE audit
          /\ last' = Outcome("enter_password", u, 0, "", "", Bool(r.ret))
    /\ conv' = [conv EXCEPT ![u].gmail = END]
    /\ UNCHANGED <<user_data, inflight, now>>

\* callback withdraw, entry point of conv_handler_withdraw
withdraw_method_select(u) ==
    /\ conv[u].withdraw = END
    /\ conv' = [conv EXCEPT ![u].withdraw = ENTER_WITHDRAW_AMOUNT]
    /\ last' = Outcome("withdraw_method_select", u, 0, "", "", "")
    /\ UNCHANGED <<users, gmail_submissions, withdrawals, promo_codes, settings,
                   user_data, audit, inflight, now>>

\* float(text) raises on a text that is no number: the handler ends there and
\* the conversation keeps its state.  A refused amount returns the Message of
\* reply_text, which becomes the conversation's state.
\* amt < 100 and amt > balance are both False for nan; amt > balance raises
\* TypeError when the stored balance is NULL.
enter_withdraw_amount(u, text) ==
    /\ ~GmailTakesText(u)
    /\ conv[u].withdraw = ENTER_WITHDRAW_AMOUNT
    /\ IF ~IsFloat(text)
       THEN /\ last' = Outcome("enter_withdraw_amount", u, 0, "", "", "ValueError")
            /\ UNCHANGED <<conv, user_data>>
       ELSE LET amt == float(text)
                bal == get_user_balance(DB, u)
            IN IF ~(amt # NULL /\ amt < HARD_MIN_WITHDRAW) /\ bal = NULL
               THEN /\ last' = Outcome("enter_withdraw_amount", u, 0, "", "",
                                       "TypeError")
                    /\ UNCHANGED <<conv, user_data>>
               ELSE IF amt # NULL /\ (amt < HARD_MIN_WITHDRAW \/ amt > bal)
               THEN /\ conv' = [conv EXCEPT ![u].withdraw = MessageState]
                    /\ last' = Outcome("enter_withdraw_amount", u, 0, "", "",
                                       "Invalid Amount")
                    /\ UNCHANGED user_data
               ELSE /\ user_data' = SetData(u, "w_amt", amt)
                    /\ conv' = [conv EXCEPT ![u].withdraw = ENTER_WITHDRAW_NUMBER]
                    /\ last' = Outcome("enter_withdraw_amount", u, 0, "", "",
                                       "Enter Number")
    /\ UNCHANGED <<users, gmail_submissions, withdrawals, promo_codes, settings,
                   audit, inflight, now>>

\* the reply is "Request Sent!" whatever add_withdrawal returns
enter_withdraw_number(u) ==
    /\ ~GmailTakesText(u)
    /\ conv[u].withdraw = ENTER_WITHDRAW_NUMBER
    /\ Len(withdrawals) < MaxWithdrawals
    /\ LET amt == user_data[u]["w_amt"]
           r == add_withdrawal(DB, u, amt)
       IN /\ Store(r.db)
          /\ audit' = IF r.ret # None
                      THEN Applied([audit EXCEPT !.refunded = Append(@, 0),
                                                 !.paid = Append(@, 0)],
                                   u, Neg(amt))
                      ELSE audit
          /\ last' = Outcome("enter_withdraw_number", u, 0, "", "",
                             IF r.raised THEN "TypeError"
                             ELSE IF r.ret = None THEN "None" ELSE "rowid")
          /\ conv' = IF r.raised THEN conv ELSE [conv EXCEPT ![u].withdraw = END]
    /\ UNCHANGED <<user_data, inflight, now>>

\* callback cancel, the fallback of every conversation: the first conversation
\* of the user that is under way ends
cancel_operation(u) ==
    /\ \/ conv[u].gmail # END
       \/ conv[u].withdraw # END
       \/ conv[u].admin # END
    /\ conv' = IF conv[u].gmail # END
               THEN [conv EXCEPT ![u].gmail = END]
               ELSE IF conv[u].withdraw # END
               THEN [conv EXCEPT ![u].withdraw = END]
               ELSE [conv EXCEPT ![u].admin = END]
    /\ last' = Outcome("cancel_operation", u, 0, "", "", "")
    /\ UNCHANGED <<users, gmail_submissions, withdrawals, promo_codes, settings,
                   user_data, audit, inflight, now>>

-----------------------------------------------------------------------------
(* Calls of the Database methods the admin side of the bot is written around *)

ban_user_call(uid) ==
    /\ Store(ban_user(DB, uid))
    /\ last' = Outcome("ban_user", uid, 0, "", "", "")
    /\ UNCHANGED <<conv, user_data, audit, inflight, now>>

unban_user_call(uid) ==
    /\ Store(unban_user(DB, uid))
    /\ last' = Outcome("unban_user", uid, 0, "", "", "")
    /\ UNCHANGED <<conv, user_data, audit, inflight, now>>

update_setting_call(key, value) ==
    /\ Store(update_setting(DB, key, value))
    /\ last' = Outcome("update_setting", 0, 0, key, "", "")
    /\ UNCHANGED <<conv, user_data, audit, inflight, now>>

\* Database.get_setting, its result kept in last.ret
get_setting_call(key) ==
    /\ last' = Outcome("get_setting", 0, 0, key, "",
                       IF get_setting(DB, key) = None THEN "None"
                       ELSE str(Head(get_setting(DB, key))))
    /\ UNCHANGED <<users, gmail_submissions, withdrawals, promo_codes, settings,
                   conv, user_data, audit, inflight, now>>

\* audit.credited[gid] gains what the call added to the owner's stored balance
update_gmail_status_call(gid, status) ==
    LET r == update_gmail_status(DB, gid, status)
    IN /\ audit.reviews < MaxReviews
       /\ Store(r.db)
       /\ audit' = IF r.ret
                   THEN LET g == gmail_submissions[gid]
                            owner == g.user_id
                        IN Applied([audit EXCEPT
                                      !.reviews = @ + 1,
                                      !.credited[gid] =
                                          @ + get_user_balance(r.db, owner)
                                            - get_user_balance(DB, owner)],
                                   owner,
                                   IF status = "success" THEN g.amount
                                   ELSE IF status = "rejected" /\ g.status = "success"
                                   THEN Neg(g.amount)
                                   ELSE 0)
                   ELSE audit
       /\ last' = Outcome("update_gmail_status", 0, gid, status,
                          IF r.ret THEN gmail_submissions[gid].status ELSE "", Bool(r.ret))
       /\ UNCHANGED <<conv, user_data, inflight, now>>

\* audit.refunded[wid] and audit.paid[wid] gain what the call added to the
\* owner's stored balance and total_withdraw
update_withdrawal_status_call(wid, status) ==
    LET r == update_withdrawal_status(DB, wid, status)
    IN /\ audit.reviews < MaxReviews
       /\ Store(r.db)
       /\ audit' = IF r.ret
                   THEN LET owner == withdrawals[wid].user_id
                        IN Applied([audit EXCEPT
                                      !.reviews = @ + 1,
                                      !.refunded[wid] =
                                          IF owner \in DOMAIN users
                                          THEN @ + r.db.users[owner].balance
                                                 - users[owner].balance
                                          ELSE @,
                                      !.paid[wid] =
                                          IF owner \in DOMAIN users
                                          THEN @ + r.db.users[owner].total_withdraw
                                                 - users[owner].total_withdraw
                                          ELSE @],
                                   owner,
                                   IF status = "rejected" THEN withdrawals[wid].amount
                                   ELSE 0)
                   ELSE audit
       /\ last' = Outcome("update_withdrawal_status", 0, wid, status,
                          IF r.ret THEN withdrawals[wid].status ELSE "", Bool(r.ret))
       /\ UNCHANGED <<conv, user_data, inflight, now>>

\* audit.limit[code] is the limit the code was created with
create_promo_code_call(code, amount, limit) ==
    LET r == create_promo_code(DB, code, amount, limit)
    IN /\ Store(r.db)
       /\ audit' = IF r.ret
                   THEN [audit EXCEPT
                           !.limit = [c \in DOMAIN @ \cup {code} |->
                                        IF c = code THEN limit ELSE @[c]],
                           !.redeemed = [c \in DOMAIN @ \cup {code} |->
                                        IF c = code THEN 0 ELSE @[c]]]
                   ELSE audit
       /\ last' = Outcome("create_promo_code", 0, 0, code, "", Bool(r.ret))
       /\ UNCHANGED <<conv, user_data, inflight, now>>

\* audit.redeemed[code] counts the calls that returned success
use_promo_code_call(code, uid) ==
    LET r == use_promo_code(DB, code, uid)
    IN /\ Store(r.db)
       /\ audit' = IF r.ret.success
                   THEN Applied([audit EXCEPT !.redeemed[code] = @ + 1],
                                uid, promo_codes[code].amount)
                   ELSE audit
       /\ last' = Outcome("use_promo_code", uid, 0, code, "", r.ret.msg)
       /\ UNCHANGED <<conv, user_data, inflight, now>>

-----------------------------------------------------------------------------
(* Redemption.  user_redeem_start raises (context has no answer) before    *)
(* it returns ENTER_PROMO_REDEEM, so no conversation state guards the       *)
(* handler here: it is taken as called for every text update, as the        *)
(* redemption path is written.  The Application handles one update at a     *)
(* time (no concurrent_updates), and the handler reaches its first await    *)
(* after use_promo_code has returned.                                       *)

\* a text update of user u arrives and waits for its handler
redeem_update(u, text) ==
    /\ inflight[u] = None
    /\ inflight' = [inflight EXCEPT ![u] = Some(text)]
    /\ last' = Outcome("redeem_update", u, 0, "", "", "")
    /\ UNCHANGED <<users, gmail_submissions, withdrawals, promo_codes, settings,
                   conv, user_data, audit, now>>

\* the handler of the update of user u that waits
user_enter_redeem_code(u) ==
    /\ inflight[u] # None
    /\ LET code == strip_upper(Head(inflight[u]))
           r == use_promo_code(DB, code, u)
       IN /\ Store(r.db)
          /\ audit' = IF r.ret.success
                      THEN Applied([audit EXCEPT !.redeemed[code] = @ + 1],
                                   u, promo_codes[code].amount)
                      ELSE audit
          /\ last' = Outcome("user_enter_redeem_code", u, 0, code, "", r.ret.msg)
    /\ inflight' = [inflight EXCEPT ![u] = None]
    /\ UNCHANGED <<conv, user_data, now>>

-----------------------------------------------------------------------------
(* Daily bonus *)

\* the claim of both branches of show_daily_bonus
claim_bonus(d, user_id, dt) ==
    LET amt == Param(get_setting(d, "daily_bonus_amount"))
        d1 == update_balance(d, user_id, amt)
    IN [d1 EXCEPT !.users[user_id].last_daily_claim = Some(adapt_datetime(dt))]

\* message "Daily Bonus" of user u at the microsecond given.  Without a users
\* row user is None and user['last_daily_claim'] raises TypeError; a stored
\* text strptime cannot parse raises ValueError; the handler ends there.
show_daily_bonus(u, microsecond) ==
    LET user == get_user(DB, u)
        dt == [hours |-> now, microsecond |-> microsecond]
    IN /\ IF user = None
          THEN /\ last' = Outcome("show_daily_bonus", u, 0, "", "", "TypeError")
               /\ UNCHANGED <<users, gmail_submissions, withdrawals, promo_codes,
                              settings>>
          ELSE IF Head(user).last_daily_claim = None
          THEN /\ Store(claim_bonus(DB, u, dt))
               /\ last' = Outcome("show_daily_bonus", u, 0, "", "", "Bonus Claimed")
          ELSE LET parsed == strptime(Head(Head(user).last_daily_claim))
               IN IF parsed = None
                  THEN /\ last' = Outcome("show_daily_bonus", u, 0, "", "",
                                          "ValueError")
                       /\ UNCHANGED <<users, gmail_submissions, withdrawals,
                                      promo_codes, settings>>
                  ELSE IF days(dt, Head(parsed)) >= 1
                  THEN /\ Store(claim_bonus(DB, u, dt))
                       /\ last' = Outcome("show_daily_bonus", u, 0, "", "",
                                          "Bonus Claimed")
                  ELSE /\ last' = Outcome("show_daily_bonus", u, 0, "", "",
                                          "Already claimed")
                       /\ UNCHANGED <<users, gmail_submissions, withdrawals,
                                      promo_codes, settings>>
       /\ audit' = IF last'.ret = "Bonus Claimed"
                   THEN Applied(audit, u, Param(get_setting(DB, "daily_bonus_amount")))
                   ELSE audit
       /\ UNCHANGED <<conv, user_data, inflight, now>>

\* time passes
Tick(h) ==
    /\ now + h <= MaxHours
    /\ now' = now + h
    /\ last' = Outcome("tick", 0, 0, "", "", "")
    /\ UNCHANGED <<users, gmail_submissions, withdrawals, promo_codes, settings,
                   conv, user_data, audit, inflight>>

-----------------------------------------------------------------------------
(* Admin conversation: the handlers of conv_handler_admin run for whichever  *)
(* user sends the callback data or the text; only show_admin_landing reads   *)
(* is_admin                                                                  *)

\* the text "Admin Panel", handled by handle_message: the one place that reads
\* is_admin.  get_user is None for a user without a row.
show_admin_landing(u) ==
    /\ AdminGetsText(u)
    /\ ~AdminTakesText(u)
    /\ last' = Outcome("show_admin_landing", u, 0, "", "",
                       IF get_user(DB, u) = None THEN "TypeError"
                       ELSE IF ~users[u].is_admin THEN "Access Denied"
                       ELSE "Admin Verification Required")
    /\ UNCHANGED <<users, gmail_submissions, withdrawals, promo_codes, settings,
                   conv, user_data, audit, inflight, now>>

\* callback admin_create_promo, an entry point
admin_create_promo_start(u) ==
    /\ conv[u].admin = END
    /\ conv' = [conv EXCEPT ![u].admin = ADMIN_CREATE_PROMO_CODE]
    /\ last' = Outcome("admin_create_promo_start", u, 0, "", "", "")
    /\ UNCHANGED <<users, gmail_submissions, withdrawals, promo_codes, settings,
                   user_data, audit, inflight, now>>

admin_enter_promo_code(u, text) ==
    /\ AdminGetsText(u)
    /\ conv[u].admin = ADMIN_CREATE_PROMO_CODE
    /\ user_data' = SetData(u, "promo_code", strip_upper(text))
    /\ conv' = [conv EXCEPT ![u].admin = ADMIN_PROMO_AMOUNT]
    /\ last' = Outcome("admin_enter_promo_code", u, 0, "", "", "")
    /\ UNCHANGED <<users, gmail_submissions, withdrawals, promo_codes, settings,
                   audit, inflight, now>>

\* the except branch returns the Message of reply_text
admin_enter_promo_amount(u, text) ==
    /\ AdminGetsText(u)
    /\ conv[u].admin = ADMIN_PROMO_AMOUNT
    /\ IF IsFloat(text)
       THEN /\ user_data' = SetData(u, "promo_amt", float(text))
            /\ conv' = [conv EXCEPT ![u].admin = ADMIN_PROMO_LIMIT]
            /\ last' = Outcome("admin_enter_promo_amount", u, 0, "", "", "Enter Limit")
       ELSE /\ conv' = [conv EXCEPT ![u].admin = MessageState]
            /\ last' = Outcome("admin_enter_promo_amount", u, 0, "", "",
                               "Invalid Number")
            /\ UNCHANGED user_data
    /\ UNCHANGED <<users, gmail_submissions, withdrawals, promo_codes, settings,
                   audit, inflight, now>>

admin_enter_promo_limit(u, text) ==
    /\ AdminGetsText(u)
    /\ conv[u].admin = ADMIN_PROMO_LIMIT
    /\ IF IsInt(text)
       THEN LET code == user_data[u]["promo_code"]
                r == create_promo_code(DB, code, user_data[u]["promo_amt"], int(text))
            IN /\ Store(r.db)
               /\ audit' = IF r.ret
                           THEN [audit EXCEPT
                                   !.limit = [c \in DOMAIN @ \cup {code} |->
                                                IF c = code THEN int(text) ELSE @[c]],
                                   !.redeemed = [c \in DOMAIN @ \cup {code} |->
                                                IF c = code THEN 0 ELSE @[c]]]
                           ELSE audit
               /\ conv' = [conv EXCEPT ![u].admin = END]
               /\ last' = Outcome("admin_enter_promo_limit", u, 0, code, "",
                                  IF r.ret THEN "Promo Created" ELSE "Code already exists")
       ELSE /\ conv' = [conv EXCEPT ![u].admin = MessageState]
            /\ last' = Outcome("admin_enter_promo_limit", u, 0, "", "", "Invalid Number")
            /\ UNCHANGED <<users, gmail_submissions, withdrawals, promo_codes,
                           settings, audit>>
    /\ UNCHANGED <<user_data, inflight, now>>

\* callback adm_user_act_<id>, an entry point: the target id is stored before
\* the profile of a target without a row raises TypeError
admin_user_action_select(u, data) ==
    /\ conv[u].admin = END
    /\ user_data' = SetData(u, "admin_target_uid", TargetOf(data))
    /\ IF get_user(DB, TargetOf(data)) = None
       THEN /\ last' = Outcome("admin_user_action_select", u, TargetOf(data), "", "",
                               "TypeError")
            /\ UNCHANGED conv
       ELSE /\ conv' = [conv EXCEPT ![u].admin = ADMIN_USER_ACTION_SELECT]
            /\ last' = Outcome("admin_user_action_select", u, TargetOf(data), "", "",
                               "User Profile")
    /\ UNCHANGED <<users, gmail_submissions, withdrawals, promo_codes, settings,
                   audit, inflight, now>>

\* callback adm_do_addbal / adm_do_ban.  After the ban or unban is committed
\* the handler calls admin_user_action_select with the same update, whose
\* int('ban') raises ValueError: the conversation keeps its state.
admin_perform_user_action(u, action) ==
    /\ conv[u].admin = ADMIN_USER_ACTION_SELECT
    /\ LET uid == user_data[u]["admin_target_uid"]
       IN IF action = "addbal"
          THEN /\ last' = Outcome("admin_perform_user_action", u, uid, action, "",
                                  "Use Admin Add Balance tool")
               /\ UNCHANGED <<users, gmail_submissions, withdrawals, promo_codes,
                              settings>>
          ELSE /\ Store(IF users[uid].is_banned THEN unban_user(DB, uid)
                        ELSE ban_user(DB, uid))
               /\ last' = Outcome("admin_perform_user_action", u, uid, action, "",
                                  "ValueError")
    /\ UNCHANGED <<conv, user_data, audit, inflight, now>>

\* callback review_gmail_by_id, an entry point
admin_review_gmail(u) ==
    /\ conv[u].admin = END
    /\ conv' = [conv EXCEPT ![u].admin = ENTER_GMAIL_ID]
    /\ last' = Outcome("admin_review_gmail", u, 0, "", "", "")
    /\ UNCHANGED <<users, gmail_submissions, withdrawals, promo_codes, settings,
                   user_data, audit, inflight, now>>

\* The whole body is in a try whose bare except replies "Invalid ID"; each
\* reply_text that is returned makes its Message the conversation's state.
\* For a row that exists the id is stored, then the text of the reply reads
\* g['first_name'], a column the row of SELECT * FROM gmail_submissions may
\* lack: the IndexError goes to the except.
admin_enter_gmail_id(u, text) ==
    /\ AdminGetsText(u)
    /\ conv[u].admin = ENTER_GMAIL_ID
    /\ IF ~IsInt(text)
       THEN /\ last' = Outcome("admin_enter_gmail_id", u, 0, text, "", "Invalid ID")
            /\ conv' = [conv EXCEPT ![u].admin = MessageState]
            /\ UNCHANGED user_data
       ELSE IF get_gmail_by_id(DB, int(text)) = None
       THEN /\ last' = Outcome("admin_enter_gmail_id", u, int(text), text, "",
                               "Not Found")
            /\ conv' = [conv EXCEPT ![u].admin = MessageState]
            /\ UNCHANGED user_data
       ELSE LET g == Head(get_gmail_by_id(DB, int(text)))
            IN /\ user_data' = SetData(u, "review_gid", int(text))
               /\ IF "first_name" \in DOMAIN g
                  THEN /\ last' = Outcome("admin_enter_gmail_id", u, int(text), text,
                                          g.status, "Review")
                       /\ conv' = [conv EXCEPT ![u].admin = SELECT_GMAIL_ACTION]
                  ELSE /\ last' = Outcome("admin_enter_gmail_id", u, int(text), text,
                                          g.status, "Invalid ID")
                       /\ conv' = [conv EXCEPT ![u].admin = MessageState]
    /\ UNCHANGED <<users, gmail_submissions, withdrawals, promo_codes, settings,
                   audit, inflight, now>>

\* callback review_withdraw_by_id, an entry point
admin_review_withdraw_id(u) ==
    /\ conv[u].admin = END
    /\ conv' = [conv EXCEPT ![u].admin = ENTER_WITHDRAW_ID]
    /\ last' = Outcome("admin_review_withdraw_id", u, 0, "", "", "")
    /\ UNCHANGED <<users, gmail_submissions, withdrawals, promo_codes, settings,
                   user_data, audit, inflight, now>>

\* as admin_enter_gmail_id, with w['first_name'] of SELECT * FROM withdrawals
admin_enter_withdraw_id(u, text) ==
    /\ AdminGetsText(u)
    /\ conv[u].admin = ENTER_WITHDRAW_ID
    /\ IF ~IsInt(text)
       THEN /\ last' = Outcome("admin_enter_withdraw_id", u, 0, text, "", "Invalid ID")
            /\ conv' = [conv EXCEPT ![u].admin = MessageState]
            /\ UNCHANGED user_data
       ELSE IF get_withdrawal_by_id(DB, int(text)) = None
       THEN /\ last' = Outcome("admin_enter_withdraw_id", u, int(text), text, "",
                               "Not Found")
            /\ conv' = [conv EXCEPT ![u].admin = MessageState]
            /\ UNCHANGED user_data
       ELSE LET w == Head(get_withdrawal_by_id(DB, int(text)))
            IN /\ user_data' = SetData(u, "review_wid", int(text))
               /\ IF "first_name" \in DOMAIN w
                  THEN /\ last' = Outcome("admin_enter_withdraw_id", u, int(text),
                                          text, w.status, "Withdrawal")
                       /\ conv' = [conv EXCEPT ![u].admin = SELECT_WITHDRAW_ACTION]
                  ELSE /\ last' = Outcome("admin_enter_withdraw_id", u, int(text),
                                          text, w.status, "Invalid ID")
                       /\ conv' = [conv EXCEPT ![u].admin = MessageState]
    /\ UNCHANGED <<users, gmail_submissions, withdrawals, promo_codes, settings,
                   audit, inflight, now>>

\* context.bot.send_message without the try around it
send_approval_unguarded(delivered) == [raised |-> ~delivered, sent |-> delivered]

\* try: await context.bot.send_message(...) except: pass
\* delivered is whether Telegram accepts the message
send_approval(delivered) == [raised |-> FALSE, sent |-> delivered]

\* The body of admin_handle_gmail_action for the callback data act, for a user
\* whose user_data holds review_gid.  The state SELECT_GMAIL_ACTION that the
\* handler is registered for is never entered (admin_enter_gmail_id), so the
\* handler is taken as called.  update_gmail_status has committed before the
\* notification is sent.
admin_handle_gmail_action(u, act, delivered) ==
    /\ "review_gid" \in DOMAIN user_data[u]
    /\ audit.reviews < MaxReviews
    /\ LET gid == user_data[u]["review_gid"]
           status == IF act = "approve_gmail" THEN "success"
                     ELSE IF act = "pending_gmail" THEN "pending"
                     ELSE "rejected"
           r == update_gmail_status(DB, gid, status)
           g == gmail_submissions[gid]
           n == IF status = "success" THEN send_approval(delivered)
                ELSE [raised |-> FALSE, sent |-> FALSE]
       IN /\ Store(r.db)
          /\ audit' = Applied([audit EXCEPT
                                 !.reviews = @ + 1,
                                 !.credited[gid] =
                                     @ + get_user_balance(r.db, g.user_id)
                                       - get_user_balance(DB, g.user_id)],
                              g.user_id,
                              IF status = "success" THEN g.amount
                              ELSE IF status = "rejected" /\ g.status = "success"
                              THEN Neg(g.amount)
                              ELSE 0)
          /\ last' = Outcome("admin_handle_gmail_action", u, gid, status, g.status,
                             IF n.raised THEN "TelegramError"
                             ELSE IF n.sent THEN "notified"
                             ELSE IF status = "success" THEN "not notified"
                             ELSE "")
          /\ conv' = IF n.raised THEN conv ELSE [conv EXCEPT ![u].admin = END]
    /\ UNCHANGED <<user_data, inflight, now>>

\* CallbackQueryHandler(self.button_handler), the last callback handler: it
\* answers the query and acts on back_main, admin_gmails_* and
\* admin_withdrawals_* only, writing nothing
button_handler(u, data) ==
    /\ last' = Outcome("button_handler", u, 0, data, "", "")
    /\ UNCHANGED <<users, gmail_submissions, withdrawals, promo_codes, settings,
                   conv, user_data, audit, inflight, now>>

\* the pattern ^(approve_gmail|pending_gmail)$ of the handler registered for
\* SELECT_GMAIL_ACTION
MatchesGmailAction(data) == data \in {"approve_gmail", "pending_gmail"}

\* A callback query with the data of a button of the review keyboard, from a
\* user whose user_data holds review_gid: admin_handle_gmail_action takes the
\* data its pattern matches; other data matches no handler and no fallback of
\* the conversations and reaches button_handler.
select_gmail_action(u, data, delivered) ==
    IF MatchesGmailAction(data)
    THEN admin_handle_gmail_action(u, data, delivered)
    ELSE /\ "review_gid" \in DOMAIN user_data[u]
         /\ button_handler(u, data)

\* the keys of the dict labels in admin_handle_setting_action
SettingLabels == {"gmail_price", "min_withdraw", "daily_bonus"}

\* callback set_gmail_price, set_min_withdraw or set_daily_bonus, an entry
\* point: the key is stored, then labels[key] raises KeyError for a key the
\* dict lacks and the conversation is not entered
admin_handle_setting_action(u, data) ==
    /\ conv[u].admin = END
    /\ user_data' = SetData(u, "setting_key", LastPart(data))
    /\ IF LastPart(data) \in SettingLabels
       THEN /\ conv' = [conv EXCEPT ![u].admin = ADMIN_EDIT_SETTING_VAL]
            /\ last' = Outcome("admin_handle_setting_action", u, 0, data, "", "")
       ELSE /\ last' = Outcome("admin_handle_setting_action", u, 0, data, "",
                               "KeyError")
            /\ UNCHANGED conv
    /\ UNCHANGED <<users, gmail_submissions, withdrawals, promo_codes, settings,
                   audit, inflight, now>>

\* The body of admin_edit_setting_val for a user whose user_data holds
\* setting_key.  The state ADMIN_EDIT_SETTING_VAL the handler is registered
\* for is never entered (admin_handle_setting_action), so the handler is taken
\* as called.  The except branch returns the Message of reply_text.
admin_edit_setting_val(u, text) ==
    /\ "setting_key" \in DOMAIN user_data[u]
    /\ IF IsFloat(text)
       THEN /\ Store(update_setting(DB, user_data[u]["setting_key"], float(text)))
            /\ conv' = [conv EXCEPT ![u].admin = END]
            /\ last' = Outcome("admin_edit_setting_val", u, 0, text,
                               user_data[u]["setting_key"], "updated")
       ELSE /\ conv' = [conv EXCEPT ![u].admin = MessageState]
            /\ last' = Outcome("admin_edit_setting_val", u, 0, text,
                               user_data[u]["setting_key"], "Invalid Number")
            /\ UNCHANGED <<users, gmail_submissions, withdrawals, promo_codes,
                           settings>>
    /\ UNCHANGED <<user_data, audit, inflight, now>>

-----------------------------------------------------------------------------
(* Specifications *)

UserStart == \E u \in Sellers : start(u, FirstCode[u])

GmailFlow ==
    \/ \E u \in Sellers : start_gmail_sell(u)
    \/ \E u \in Sellers, text \in GmailTexts : enter_gmail(u, text)
    \/ \E u \in Sellers, text \in PasswordTexts : enter_password(u, text)

WithdrawFlow ==
    \/ \E u \in Sellers : withdraw_method_select(u)
    \/ \E u \in Sellers, text \in WithdrawTexts : enter_withdraw_amount(u, text)
    \/ \E u \in Sellers : enter_withdraw_number(u)

Cancel == \E u \in Sellers : cancel_operation(u)

Ban ==
    \/ \E u \in Sellers : ban_user_call(u)
    \/ \E u \in Sellers : unban_user_call(u)

Settings ==
    \E key \in SettingKeys, value \in SettingValues : update_setting_call(key, value)

GmailReview ==
    \E gid \in 1..(Len(gmail_submissions) + 1), status \in GmailStatuses :
        update_gmail_status_call(gid, status)

WithdrawReview ==
    \E wid \in 1..(Len(withdrawals) + 1), status \in WithdrawStatuses :
        update_withdrawal_status_call(wid, status)

PromoStart == \E u \in UserIds : start(u, FirstCode[u])

PromoBan ==
    \/ \E u \in UserIds : ban_user_call(u)
    \/ \E u \in UserIds : unban_user_call(u)

Promo ==
    \/ \E code \in PromoCodes, amount \in PromoAmounts, limit \in PromoLimits :
          create_promo_code_call(code, amount, limit)
    \/ \E code \in RedeemCodes, u \in UserIds : use_promo_code_call(code, u)

\* a seller, the settings and the two reviews
Next ==
    \/ UserStart
    \/ GmailFlow
    \/ WithdrawFlow
    \/ Cancel
    \/ Ban
    \/ Settings
    \/ GmailReview
    \/ WithdrawReview

Spec == Init /\ [][Next]_vars

\* a seller and the review of submissions
NextGmail ==
    \/ UserStart
    \/ GmailFlow
    \/ Cancel
    \/ Ban
    \/ Settings
    \/ GmailReview

SpecGmail == Init /\ [][NextGmail]_vars

\* the users and the promo codes
NextPromo ==
    \/ PromoStart
    \/ PromoBan
    \/ Promo

SpecPromo == Init /\ [][NextPromo]_vars

PromoCreate ==
    \E code \in PromoCodes, amount \in PromoAmounts, limit \in PromoLimits :
        create_promo_code_call(code, amount, limit)

Redeem ==
    \/ \E u \in UserIds, text \in RedeemTexts : redeem_update(u, text)
    \/ \E u \in UserIds : user_enter_redeem_code(u)

\* the users, the promo codes and the redemption handler
NextRedeem ==
    \/ PromoStart
    \/ PromoCreate
    \/ Redeem

SpecRedeem == Init /\ [][NextRedeem]_vars

Bonus == \E u \in UserIds, microsecond \in Microseconds : show_daily_bonus(u, microsecond)

Clock == \E h \in Ticks : Tick(h)

\* the users, the daily bonus and the clock
NextBonus ==
    \/ PromoStart
    \/ Bonus
    \/ Clock

SpecBonus == Init /\ [][NextBonus]_vars

LedgerPromo ==
    \/ PromoCreate
    \/ \E code \in RedeemCodes, u \in Sellers : use_promo_code_call(code, u)

LedgerBonus == \E u \in Sellers, microsecond \in Microseconds : show_daily_bonus(u, microsecond)

\* a seller and every operation that changes a balance
NextLedger ==
    \/ UserStart
    \/ GmailFlow
    \/ WithdrawFlow
    \/ GmailReview
    \/ WithdrawReview
    \/ LedgerPromo
    \/ LedgerBonus

SpecLedger == Init /\ [][NextLedger]_vars

SubmitFlow ==
    \/ \E u \in UserIds : start_gmail_sell(u)
    \/ \E u \in UserIds, text \in SubmitTexts : enter_gmail(u, text)
    \/ \E u \in UserIds, text \in SubmitPasswords : enter_password(u, text)

\* two users that submit Gmails, and the settings
NextSubmit ==
    \/ PromoStart
    \/ SubmitFlow
    \/ Settings

SpecSubmit == Init /\ [][NextSubmit]_vars

\* the withdraw conversation with amounts float() parses to a number and to nan
PayoutTexts == {"155", "nan"}

PayoutFlow ==
    \E u \in Sellers :
        \/ withdraw_method_select(u)
        \/ \E text \in PayoutTexts : enter_withdraw_amount(u, text)
        \/ enter_withdraw_number(u)

NextPayout ==
    \/ UserStart
    \/ GmailFlow
    \/ Settings
    \/ GmailReview
    \/ PayoutFlow
    \/ WithdrawReview

SpecPayout == Init /\ [][NextPayout]_vars

\* the keys create_tables gives a row, and the values it gives them
RecognizedKeys == {"min_withdraw", "gmail_price", "referral_commission",
                   "daily_bonus_amount"}

DefaultSetting(key) ==
    CASE key = "min_withdraw" -> "100.0"
      [] key = "gmail_price" -> "5.0"
      [] key = "referral_commission" -> "5.0"
      [] key = "daily_bonus_amount" -> "2.0"

\* get_setting and its readers on every settings table over the recognized
\* keys, the tables with a row missing included: the inputs of get_setting
InitSettings ==
    /\ users = [u \in {} |-> 0]
    /\ gmail_submissions = <<>>
    /\ withdrawals = <<>>
    /\ promo_codes = [c \in {} |-> 0]
    /\ \E keys \in SUBSET RecognizedKeys :
           settings = [k \in keys |-> DefaultSetting(k)]
    /\ conv = [u \in UserIds |-> [gmail |-> END, withdraw |-> END, admin |-> END]]
    /\ user_data = [u \in UserIds |-> NoData]
    /\ last = Outcome("init", 0, 0, "", "", "")
    /\ audit = [reviews |-> 0, owner_known |-> <<>>, credited |-> <<>>,
                refunded |-> <<>>, paid |-> <<>>, ledger |-> [u \in UserIds |-> 0],
                price |-> <<>>,
                limit |-> [c \in {} |-> 0], redeemed |-> [c \in {} |-> 0]]
    /\ inflight = [u \in UserIds |-> None]
    /\ now = 0

ReadSetting ==
    \E key \in RecognizedKeys : get_setting_call(key)

NextSettings ==
    \/ ReadSetting
    \/ Settings
    \/ UserStart
    \/ GmailFlow
    \/ Bonus

SpecSettings == InitSettings /\ [][NextSettings]_vars

\* the admin conversation, for the admin (user 1) and for a user who is none
PromoNameTexts == {"free"}
PromoAmountTexts == {"155", "abc"}
PromoLimitTexts == {"1", "x"}
TargetData == {"adm_user_act_1", "adm_user_act_2"}

AdminLanding == \E u \in UserIds : show_admin_landing(u)

AdminPromo ==
    \E u \in UserIds :
        \/ admin_create_promo_start(u)
        \/ \E text \in PromoNameTexts : admin_enter_promo_code(u, text)
        \/ \E text \in PromoAmountTexts : admin_enter_promo_amount(u, text)
        \/ \E text \in PromoLimitTexts : admin_enter_promo_limit(u, text)

AdminUsers ==
    \E u \in UserIds :
        \/ \E data \in TargetData : admin_user_action_select(u, data)
        \/ \E action \in {"addbal", "ban"} : admin_perform_user_action(u, action)

AdminCancel == \E u \in UserIds : cancel_operation(u)

NextAdmin ==
    \/ PromoStart
    \/ AdminLanding
    \/ AdminPromo
    \/ AdminUsers
    \/ AdminCancel

SpecAdmin == Init /\ [][NextAdmin]_vars

\* /start with every draw of the referral code, on rows that submissions,
\* reviews and bans have changed
JoinStart == \E u \in UserIds, ref_code \in ReferralCodes : start(u, ref_code)

NextJoin ==
    \/ JoinStart
    \/ GmailFlow
    \/ GmailReview
    \/ PromoBan

SpecJoin == Init /\ [][NextJoin]_vars

\* the review of a submission by its id, by the admin
IdTexts == {"1", " 1", "2", "abc"}

GmailIdEntry ==
    \E u \in ADMIN_IDS :
        \/ admin_review_gmail(u)
        \/ \E text \in IdTexts : admin_enter_gmail_id(u, text)

GmailAction ==
    \E u \in ADMIN_IDS, act \in {"approve_gmail", "pending_gmail"},
       delivered \in BOOLEAN :
        admin_handle_gmail_action(u, act, delivered)

NextNotify ==
    \/ UserStart
    \/ GmailFlow
    \/ GmailIdEntry
    \/ GmailAction
    \/ AdminCancel

SpecNotify == Init /\ [][NextNotify]_vars

\* the review of submissions and withdrawals by id, on records the users'
\* conversations have made
WithdrawIdEntry ==
    \E u \in ADMIN_IDS :
        \/ admin_review_withdraw_id(u)
        \/ \E text \in IdTexts : admin_enter_withdraw_id(u, text)

NextReview ==
    \/ UserStart
    \/ GmailFlow
    \/ Settings
    \/ GmailReview
    \/ WithdrawFlow
    \/ GmailIdEntry
    \/ WithdrawIdEntry
    \/ AdminCancel

SpecReview == Init /\ [][NextReview]_vars

\* the callback data of the buttons Approve, Reject and Set Pending that
\* admin_enter_gmail_id puts on the review keyboard
ReviewButtons == {"approve_gmail", "reject_gmail_direct", "pending_gmail"}

\* the status each button stands for
DecisionOf(data) ==
    CASE data = "approve_gmail" -> "success"
      [] data = "reject_gmail_direct" -> "rejected"
      [] data = "pending_gmail" -> "pending"

GmailDecision ==
    \E u \in ADMIN_IDS, data \in ReviewButtons, delivered \in BOOLEAN :
        select_gmail_action(u, data, delivered)

NextDecide ==
    \/ UserStart
    \/ GmailFlow
    \/ GmailIdEntry
    \/ GmailDecision
    \/ AdminCancel

SpecDecide == Init /\ [][NextDecide]_vars

\* the edit-setting flow: the callback data of the three buttons of
\* admin_edit_settings_start and the value texts
SettingData == {"set_gmail_price", "set_min_withdraw", "set_daily_bonus"}
SettingTexts == {"200.0", "100.0", "abc"}

\* the setting each button is labelled with, as the business logic reads it
ReadKeyOf(data) ==
    CASE data = "set_gmail_price" -> "gmail_price"
      [] data = "set_min_withdraw" -> "min_withdraw"
      [] data = "set_daily_bonus" -> "daily_bonus_amount"

SettingEntry ==
    \E u \in UserIds, data \in SettingData : admin_handle_setting_action(u, data)

SettingValue ==
    \E u \in UserIds, text \in SettingTexts : admin_edit_setting_val(u, text)

NextEdit ==
    \/ SettingEntry
    \/ SettingValue
    \/ ReadSetting
    \/ AdminCancel

SpecEdit == Init /\ [][NextEdit]_vars

\* the same, on a database file with stored promo codes
SpecStored == InitStored /\ [][NextPromo]_vars

-----------------------------------------------------------------------------
(* Claims *)

\* the step ran update_gmail_status on an existing submission
GmailReviewed == last'.op = "update_gmail_status" /\ last'.ret = "True"

\* the step ran update_withdrawal_status on an existing withdrawal
WithdrawalReviewed == last'.op = "update_withdrawal_status" /\ last'.ret = "True"

\* C1: approving a submission whose status is already 'success' changes
\* neither the balance nor gmail_sell_count of any user
C1_SecondApprovalCreditsNothing ==
    [][(GmailReviewed /\ last'.arg = "success" /\ last'.pre = "success")
          => users' = users]_vars

\* C2: for every submission (of an owner who had a users row when submitting),
\* what the reviews have credited to the owner's balance on its account is its
\* amount while its status is 'success' and zero while it is 'pending' or
\* 'rejected'
C2_CreditedIffSuccess ==
    \A gid \in DOMAIN gmail_submissions :
        audit.owner_known[gid] =>
            audit.credited[gid] =
                IF gmail_submissions[gid].status = "success"
                THEN gmail_submissions[gid].amount
                ELSE 0

\* C3: a submission, a withdrawal request or a promo redemption by a user
\* whose is_banned flag is set fails as Banned and leaves users,
\* gmail_submissions, withdrawals and promo_codes unchanged
C3_BannedUserMutatesNothing ==
    [][(/\ last'.op \in {"enter_password", "enter_withdraw_number", "use_promo_code"}
        /\ last'.user \in DOMAIN users
        /\ users[last'.user].is_banned)
          => /\ last'.ret = "Banned"
             /\ UNCHANGED <<users, gmail_submissions, withdrawals, promo_codes>>]_vars

\* C4: update_withdrawal_status on a withdrawal whose status is 'success' or
\* 'rejected' is refused and changes neither the withdrawal nor any user
C4_TerminalWithdrawalRefused ==
    [][(/\ last'.op = "update_withdrawal_status"
        /\ last'.id \in DOMAIN withdrawals
        /\ withdrawals[last'.id].status \in {"success", "rejected"})
          => /\ last'.ret # "True"
             /\ withdrawals' = withdrawals
             /\ users' = users]_vars

\* C5: for every withdrawal, what the reviews have added back to the owner's
\* balance is its amount while its status is 'rejected' and zero otherwise,
\* and what they have added to total_withdraw is its amount while its status
\* is 'success' and zero otherwise
C5_RefundedIffRejectedPaidIffSuccess ==
    \A wid \in DOMAIN withdrawals :
        /\ audit.refunded[wid] =
              IF withdrawals[wid].status = "rejected" THEN withdrawals[wid].amount ELSE 0
        /\ audit.paid[wid] =
              IF withdrawals[wid].status = "success" THEN withdrawals[wid].amount ELSE 0

\* the step ran enter_withdraw_number, and so add_withdrawal, for user u
WithdrawalRequested(u) == last'.op = "enter_withdraw_number" /\ last'.user = u

\* C6: add_withdrawal called when the balance is below the amount (the amount
\* enter_withdraw_amount accepted earlier) returns None, creates no withdrawal
\* and leaves every user unchanged
C6_InsufficientFundsCreatesNothing ==
    [][\A u \in UserIds :
          (WithdrawalRequested(u) /\ get_user_balance(DB, u) < user_data[u]["w_amt"])
             => /\ last'.ret = "None"
                /\ withdrawals' = withdrawals
                /\ users' = users]_vars

\* add_withdrawal has returned None to a user whose balance is below the
\* amount that was accepted earlier in the conversation
C6_Witness ==
    /\ last.op = "enter_withdraw_number"
    /\ last.ret = "None"
    /\ last.user \in DOMAIN users
    /\ users[last.user].balance < user_data[last.user]["w_amt"]
    /\ withdrawals = <<>>

\* C7: add_withdrawal called when the balance is at least the amount reduces
\* that balance by the amount and appends one pending withdrawal of that
\* amount and owner, both in the one step: no step adds a withdrawal row
\* without the deduction, and no withdrawal request changes a user without
\* adding the row
C7_WithdrawalReservesAtomically ==
    [][/\ \A u \in UserIds :
            (WithdrawalRequested(u) /\ get_user_balance(DB, u) >= user_data[u]["w_amt"])
               => /\ u \in DOMAIN users
                  /\ users' = [users EXCEPT ![u].balance = @ - user_data[u]["w_amt"]]
                  /\ withdrawals' = Append(withdrawals,
                                           [user_id |-> u, amount |-> user_data[u]["w_amt"],
                                            status |-> "pending"])
                  /\ last'.ret = "rowid"
       /\ Len(withdrawals') # Len(withdrawals)
            => LET w == withdrawals'[Len(withdrawals')]
               IN /\ Len(withdrawals') = Len(withdrawals) + 1
                  /\ w.status = "pending"
                  /\ w.user_id \in DOMAIN users
                  /\ users'[w.user_id].balance = users[w.user_id].balance - w.amount
       /\ (last'.op = "enter_withdraw_number" /\ users' # users)
            => Len(withdrawals') = Len(withdrawals) + 1]_vars

\* add_withdrawal has inserted a pending withdrawal and returned its rowid
C7_Witness ==
    /\ last.op = "enter_withdraw_number"
    /\ last.ret = "rowid"
    /\ Len(withdrawals) >= 1
    /\ withdrawals[Len(withdrawals)].status = "pending"
    /\ withdrawals[Len(withdrawals)].user_id = last.user

\* C8: on a pending withdrawal, update_withdrawal_status 'rejected' adds the
\* amount to the owner's balance and nothing to total_withdraw, and 'success'
\* adds the amount to total_withdraw and nothing to the balance
C8_PendingWithdrawalReview ==
    [][(WithdrawalReviewed /\ last'.pre = "pending")
          => LET w == withdrawals[last'.id]
             IN /\ w.user_id \in DOMAIN users
                /\ last'.arg = "rejected"
                     => users' = [users EXCEPT ![w.user_id].balance = @ + w.amount]
                /\ last'.arg = "success"
                     => users' = [users EXCEPT ![w.user_id].total_withdraw = @ + w.amount]
                /\ withdrawals'[last'.id].status = last'.arg]_vars

\* a pending withdrawal has been rejected and its amount refunded
C8_Witness ==
    /\ last.op = "update_withdrawal_status"
    /\ last.ret = "True"
    /\ last.pre = "pending"
    /\ last.arg = "rejected"
    /\ audit.refunded[last.id] = withdrawals[last.id].amount
    /\ audit.paid[last.id] = 0

\* C9: a withdrawal is created only with an amount that is at least the
\* min_withdraw setting of that moment, and a request below it creates nothing
\* and changes no user
C9_WithdrawalAtLeastMinSetting ==
    [][/\ Len(withdrawals') > Len(withdrawals)
            => withdrawals'[Len(withdrawals')].amount
                  >= Head(get_setting(DB, "min_withdraw"))
       /\ \A u \in UserIds :
            (WithdrawalRequested(u)
                /\ user_data[u]["w_amt"] < Head(get_setting(DB, "min_withdraw")))
               => /\ withdrawals' = withdrawals
                  /\ users' = users]_vars

\* the step ran use_promo_code on an active code
Redeemed(code) ==
    /\ last'.op = "use_promo_code"
    /\ last'.arg = code
    /\ code \in DOMAIN promo_codes
    /\ promo_codes[code].is_active

\* C10: a code created with a limit n >= 0 is never redeemed with success more
\* than n times; with one use left a redemption succeeds and leaves none, and
\* with none left every redemption by any user fails as expired and changes
\* nothing
C10_RedemptionsWithinLimit ==
    [][/\ \A code \in DOMAIN promo_codes' :
            audit'.limit[code] >= 0 => audit'.redeemed[code] <= audit'.limit[code]
       /\ \A code \in DOMAIN promo_codes :
            /\ (Redeemed(code) /\ promo_codes[code].uses_left = 1)
                  => /\ last'.ret = "Success"
                     /\ promo_codes'[code].uses_left = 0
            /\ (Redeemed(code) /\ promo_codes[code].uses_left <= 0)
                  => /\ last'.ret = "Code Expired"
                     /\ promo_codes' = promo_codes
                     /\ users' = users]_vars

\* a code created with limit 1 has been redeemed once, and a later redemption
\* has failed as expired
C10_Witness ==
    /\ last.op = "use_promo_code"
    /\ last.ret = "Code Expired"
    /\ last.arg \in DOMAIN promo_codes
    /\ audit.limit[last.arg] = 1
    /\ audit.redeemed[last.arg] = 1
    /\ promo_codes[last.arg].uses_left = 0

\* the step ran use_promo_code on a code that is absent, not active or used up
RefusedCode(code) ==
    /\ last'.op = "use_promo_code"
    /\ last'.arg = code
    /\ \/ code \notin DOMAIN promo_codes
       \/ ~promo_codes[code].is_active
       \/ promo_codes[code].uses_left <= 0

\* C11: use_promo_code on a code that is absent, has is_active = FALSE or has
\* uses_left <= 0 returns a failure and changes neither promo_codes nor any
\* user
C11_RefusedCodeChangesNothing ==
    [][\A code \in RedeemCodes :
          RefusedCode(code)
             => /\ last'.ret \in {"Invalid Code", "Code Expired"}
                /\ promo_codes' = promo_codes
                /\ users' = users]_vars

\* a user with a row has tried a stored code that has uses left and is not
\* active, and was refused
C11_Witness ==
    /\ last.op = "use_promo_code"
    /\ last.ret = "Invalid Code"
    /\ last.user \in DOMAIN users
    /\ last.arg \in DOMAIN promo_codes
    /\ ~promo_codes[last.arg].is_active
    /\ promo_codes[last.arg].uses_left > 0
    /\ users[last.user].balance = 0

\* C12: a use_promo_code call that changes uses_left reduces it by exactly 1
\* and adds exactly the code's amount to the stored balance of the redeeming
\* user, whoever that user is; and a call that changes a user has reduced
\* uses_left
C12_DecrementAndCreditTogether ==
    [][last'.op = "use_promo_code"
          => /\ \A code \in DOMAIN promo_codes :
                  promo_codes'[code].uses_left # promo_codes[code].uses_left
                     => /\ promo_codes'[code].uses_left = promo_codes[code].uses_left - 1
                        /\ last'.user \in DOMAIN users
                        /\ users'[last'.user].balance =
                              users[last'.user].balance + promo_codes[code].amount
             /\ users' # users
                  => \E code \in DOMAIN promo_codes :
                        promo_codes'[code].uses_left = promo_codes[code].uses_left - 1]_vars

\* the redemption update of user u that waits is for this code
InFlight(u, code) == inflight[u] # None /\ strip_upper(Head(inflight[u])) = code

\* C13: uses_left of a code created with a limit >= 0 never becomes negative
\* and no more redemptions succeed than the limit; a redemption that succeeds
\* found a use left and took exactly that one in the same step; and when two
\* users' redemptions of a code with one use left are in flight, the one
\* handled first leaves none, so that the other cannot succeed
C13_LastUseRedeemedOnce ==
    [][/\ \A code \in DOMAIN promo_codes' :
            audit'.limit[code] >= 0
               => /\ promo_codes'[code].uses_left >= 0
                  /\ audit'.redeemed[code] <= audit'.limit[code]
       /\ \A code \in DOMAIN promo_codes :
            (last'.op = "user_enter_redeem_code" /\ last'.arg = code
                /\ last'.ret = "Success")
               => /\ promo_codes[code].uses_left >= 1
                  /\ promo_codes'[code].uses_left = promo_codes[code].uses_left - 1
       /\ \A code \in DOMAIN promo_codes, u, v \in UserIds :
            (/\ u # v /\ InFlight(u, code) /\ InFlight(v, code)
             /\ promo_codes[code].uses_left = 1
             /\ last'.op = "user_enter_redeem_code" /\ last'.user = u)
               => /\ last'.ret = "Success"
                  /\ promo_codes'[code].uses_left = 0
                  /\ InFlight(v, code)']_vars

\* two users' redemptions of a code created with one use were in flight; the
\* one handled first has succeeded and left no use, the other still waits
C13_Witness ==
    /\ last.op = "user_enter_redeem_code"
    /\ last.ret = "Success"
    /\ last.arg \in DOMAIN promo_codes
    /\ audit.limit[last.arg] = 1
    /\ audit.redeemed[last.arg] = 1
    /\ promo_codes[last.arg].uses_left = 0
    /\ \E v \in UserIds \ {last.user} : InFlight(v, last.arg)

\* C14: a daily bonus is claimed with success only when the user's last
\* successful claim is at least 24 hours old; a show_daily_bonus less than 24
\* hours after it changes no user and reports that the bonus was already
\* claimed
C14_DailyBonusOncePerDay ==
    [][\A u \in DOMAIN users :
          (/\ last'.op = "show_daily_bonus" /\ last'.user = u
           /\ users[u].last_daily_claim # None)
             => LET claimed == Head(users[u].last_daily_claim).date_time
                IN /\ last'.ret = "Bonus Claimed" => now - claimed >= 24
                   /\ now - claimed < 24
                        => /\ users' = users
                           /\ last'.ret = "Already claimed"]_vars

\* C15: the stored balance of every user is the sum, from 0, of the deltas
\* that approvals and their reversals, withdrawal requests and their refunds,
\* promo redemptions and daily bonuses applied to that user
C15_BalanceIsSumOfDeltas ==
    \A u \in DOMAIN users : users[u].balance = audit.ledger[u]

\* a user whose balance is the sum of an approval, a promo redemption, a
\* daily bonus and a withdrawal request
C15_Witness ==
    /\ 1 \in DOMAIN users
    /\ users[1].balance = audit.ledger[1]
    /\ users[1].last_daily_claim # None
    /\ \E gid \in DOMAIN gmail_submissions : audit.credited[gid] > 0
    /\ \E code \in DOMAIN promo_codes : audit.redeemed[code] > 0
    /\ \E wid \in DOMAIN withdrawals : withdrawals[wid].user_id = 1
    /\ users[1].balance = 5 + 150 + 2 - 155

\* C16: update_gmail_status(gid, 'rejected') on a submission whose status is
\* 'success' takes from the owner's balance the amount the submission was
\* made at and 1 from the owner's gmail_sell_count, and changes nothing else
\* of any user, whatever gmail_price is then
C16_ReversalDebitsStoredAmount ==
    [][(GmailReviewed /\ last'.arg = "rejected" /\ last'.pre = "success")
          => LET owner == gmail_submissions[last'.id].user_id
             IN owner \in DOMAIN users
                   => users' = [users EXCEPT
                                  ![owner].balance = @ - audit.price[last'.id],
                                  ![owner].gmail_sell_count = @ - 1]]_vars

\* an approved submission has been rejected while gmail_price was no longer
\* the price it was made at, and the credit is undone
C16_Witness ==
    /\ last.op = "update_gmail_status"
    /\ last.ret = "True"
    /\ last.arg = "rejected"
    /\ last.pre = "success"
    /\ audit.owner_known[last.id]
    /\ Head(get_setting(DB, "gmail_price")) # audit.price[last.id]
    /\ audit.credited[last.id] = 0
    /\ users[gmail_submissions[last.id].user_id].balance = 0

\* C17: update_setting changes no submission, every submission keeps the
\* amount it was made at, and an approval credits the owner with that amount
\* whatever gmail_price is then
C17_PriceChangeKeepsAmounts ==
    [][/\ last'.op = "update_setting" => gmail_submissions' = gmail_submissions
       /\ \A gid \in DOMAIN gmail_submissions' :
            gmail_submissions'[gid].amount = audit'.price[gid]
       /\ (GmailReviewed /\ last'.arg = "success")
            => LET owner == gmail_submissions[last'.id].user_id
               IN owner \in DOMAIN users
                     => users'[owner].balance =
                           users[owner].balance + audit.price[last'.id]]_vars

\* a submission made at one price has been approved after gmail_price was
\* changed, and the owner was credited with the price it was made at
C17_Witness ==
    /\ last.op = "update_gmail_status"
    /\ last.ret = "True"
    /\ last.arg = "success"
    /\ last.pre = "pending"
    /\ audit.owner_known[last.id]
    /\ Head(get_setting(DB, "gmail_price")) # audit.price[last.id]
    /\ audit.credited[last.id] = audit.price[last.id]
    /\ users[gmail_submissions[last.id].user_id].balance = audit.price[last.id]

\* the number of submissions of user u whose status is 'success'
SuccessCount(u) ==
    Cardinality({gid \in DOMAIN gmail_submissions :
                    /\ gmail_submissions[gid].user_id = u
                    /\ gmail_submissions[gid].status = "success"})

\* C18: the gmail_sell_count of every user (whose submissions were all made
\* with a users row) is the number of that user's submissions whose status is
\* 'success'
C18_SellCountMirrorsSuccesses ==
    \A u \in DOMAIN users :
        (\A gid \in DOMAIN gmail_submissions :
            gmail_submissions[gid].user_id = u => audit.owner_known[gid])
           => users[u].gmail_sell_count = SuccessCount(u)

\* the Gmail user u has sent is the gmail of a submission that exists
Duplicate(u) ==
    /\ "temp_gmail" \in DOMAIN user_data[u]
    /\ \E gid \in DOMAIN gmail_submissions :
          gmail_submissions[gid].gmail = user_data[u]["temp_gmail"]

\* C19: add_gmail_submission with a gmail that a submission of the same or of
\* another user already has returns False, adds no submission and leaves
\* every existing submission as it was
C19_DuplicateGmailRefused ==
    [][\A u \in UserIds :
          (last'.op = "enter_password" /\ last'.user = u /\ Duplicate(u))
             => /\ last'.ret = "False"
                /\ gmail_submissions' = gmail_submissions]_vars

\* a user has submitted, at another price, a Gmail that another user's
\* submission has, and add_gmail_submission returned False
C19_Witness ==
    /\ last.op = "enter_password"
    /\ last.ret = "False"
    /\ \E gid \in DOMAIN gmail_submissions :
          /\ gmail_submissions[gid].gmail = user_data[last.user]["temp_gmail"]
          /\ gmail_submissions[gid].user_id # last.user
          /\ gmail_submissions[gid].amount # Head(get_setting(DB, "gmail_price"))

\* C20: update_gmail_status(gid, 'pending') on a submission of any status
\* leaves the balance of the owner, and of every user, unchanged
C20_RequeueKeepsBalance ==
    [][(GmailReviewed /\ last'.arg = "pending")
          => /\ gmail_submissions'[last'.id].status = "pending"
             /\ \A u \in DOMAIN users : users'[u].balance = users[u].balance]_vars

\* an approved submission has been set to 'pending' and its owner still has
\* the credit
C20_Witness ==
    /\ last.op = "update_gmail_status"
    /\ last.ret = "True"
    /\ last.arg = "pending"
    /\ last.pre = "success"
    /\ audit.owner_known[last.id]
    /\ gmail_submissions[last.id].status = "pending"
    /\ users[gmail_submissions[last.id].user_id].balance = audit.price[last.id]

\* C21: for every user, total_withdraw is a number after every step and never
\* smaller than before it.
C21_TotalWithdrawNeverDecreases ==
    [][\A u \in DOMAIN users :
          /\ users'[u].total_withdraw # NULL
          /\ users'[u].total_withdraw >= users[u].total_withdraw]_vars

C23_NoAmountTextRaises ==
    [][last'.op = "enter_withdraw_amount"
          => last'.ret \in {"Invalid Amount", "Enter Number"}]_vars

\* C24: a step that creates a promo code, bans or unbans a user, changes a
\* setting or changes the status of a submission or a withdrawal is the step
\* of a handler acting for a user whose row has is_admin true.
C24_PrivilegedStepsByAdminOnly ==
    [][(\/ promo_codes' # promo_codes
        \/ settings' # settings
        \/ \E t \in DOMAIN users : users'[t].is_banned # users[t].is_banned
        \/ \E i \in DOMAIN gmail_submissions :
              gmail_submissions'[i].status # gmail_submissions[i].status
        \/ \E i \in DOMAIN withdrawals :
              withdrawals'[i].status # withdrawals[i].status)
          => /\ last'.user \in DOMAIN users
             /\ users[last'.user].is_admin]_vars

\* C25: /start, and so create_user, for a user_id that has a row leaves that
\* row and every other row as it was (balance, gmail_sell_count,
\* total_withdraw, is_admin, is_banned, referral_code, referred_by) and adds
\* no row.
C25_CreateUserKeepsExistingRow ==
    [][(last'.op = "start" /\ last'.user \in DOMAIN users) => users' = users]_vars

\* /start has run for a user whose row has a credit, a ban and a referral code
\* other than the one drawn for this call
C25_Witness ==
    /\ last.op = "start"
    /\ last.user \in DOMAIN users
    /\ users[last.user].balance > 0
    /\ users[last.user].gmail_sell_count > 0
    /\ users[last.user].is_banned
    /\ users[last.user].referral_code # last.arg

\* C26: when the approval notification cannot be sent, the approval stands
\* (the submission is 'success', the owner keeps the credit of the amount and
\* the sell count) and admin_handle_gmail_action ends normally, its
\* conversation ended.
C26_FailedNotificationKeepsApproval ==
    [][(/\ last'.op = "admin_handle_gmail_action"
        /\ last'.arg = "success"
        /\ last'.ret # "notified")
          => LET g == gmail_submissions[last'.id]
             IN /\ last'.ret = "not notified"
                /\ conv'[last'.user].admin = END
                /\ gmail_submissions'[last'.id].status = "success"
                /\ g.user_id \in DOMAIN users
                      => /\ users'[g.user_id].balance
                              = users[g.user_id].balance + g.amount
                         /\ users'[g.user_id].gmail_sell_count
                              = users[g.user_id].gmail_sell_count + 1]_vars

\* an approval whose notification failed has credited the owner
C26_Witness ==
    /\ last.op = "admin_handle_gmail_action"
    /\ last.arg = "success"
    /\ last.ret = "not notified"
    /\ gmail_submissions[last.id].status = "success"
    /\ gmail_submissions[last.id].user_id \in DOMAIN users
    /\ users[gmail_submissions[last.id].user_id].balance
          = gmail_submissions[last.id].amount
    /\ conv[last.user].admin = END

\* C27: update_gmail_status and update_withdrawal_status called with an id
\* that no record has return False and change no user, no submission and no
\* withdrawal.
C27_UnknownIdChangesNothing ==
    [][(\/ /\ last'.op = "update_gmail_status"
           /\ last'.id \notin DOMAIN gmail_submissions
        \/ /\ last'.op = "update_withdrawal_status"
           /\ last'.id \notin DOMAIN withdrawals)
          => /\ last'.ret = "False"
             /\ users' = users
             /\ gmail_submissions' = gmail_submissions
             /\ withdrawals' = withdrawals]_vars

\* update_gmail_status has returned False for an id past the last submission,
\* with a pending submission and a credited user in the tables
C27_Witness ==
    /\ last.op = "update_gmail_status"
    /\ last.ret = "False"
    /\ last.id = Len(gmail_submissions) + 1
    /\ \E i \in DOMAIN gmail_submissions : gmail_submissions[i].status = "pending"
    /\ \E u \in DOMAIN users : users[u].balance > 0

\* C28: in every reachable state no user's gmail_sell_count is negative.
C28_SellCountNotNegative ==
    \A u \in DOMAIN users : users[u].gmail_sell_count >= 0

\* C29: update_gmail_status(gid, 'rejected') on a submission whose status is
\* 'pending' or 'rejected' changes no user's balance or gmail_sell_count: a
\* second rejection does not debit again.
C29_RejectionDebitsOnlyFromSuccess ==
    [][(GmailReviewed /\ last'.arg = "rejected" /\ last'.pre \in {"pending", "rejected"})
          => users' = users]_vars

\* a submission has been rejected while 'rejected', after the rejection that
\* took the amount from its owner: the owner is debited once
C29_Witness ==
    /\ last.op = "update_gmail_status"
    /\ last.ret = "True"
    /\ last.arg = "rejected"
    /\ last.pre = "rejected"
    /\ gmail_submissions[last.id].user_id \in DOMAIN users
    /\ audit.credited[last.id] = 0 - gmail_submissions[last.id].amount
    /\ users[gmail_submissions[last.id].user_id].balance
          = 0 - gmail_submissions[last.id].amount

\* C30: admin_enter_gmail_id and admin_enter_withdraw_id given the numeric id
\* of an existing record store the id (review_gid, review_wid) and move the
\* conversation to SELECT_GMAIL_ACTION and SELECT_WITHDRAW_ACTION; only a text
\* that is no number or the id of no record is refused.
C30_ExistingIdAdvancesReview ==
    [][/\ (/\ last'.op = "admin_enter_gmail_id"
            /\ IsInt(last'.arg)
            /\ int(last'.arg) \in DOMAIN gmail_submissions)
              => /\ "review_gid" \in DOMAIN user_data'[last'.user]
                 /\ user_data'[last'.user]["review_gid"] = int(last'.arg)
                 /\ conv'[last'.user].admin = SELECT_GMAIL_ACTION
       /\ (/\ last'.op = "admin_enter_withdraw_id"
            /\ IsInt(last'.arg)
            /\ int(last'.arg) \in DOMAIN withdrawals)
              => /\ "review_wid" \in DOMAIN user_data'[last'.user]
                 /\ user_data'[last'.user]["review_wid"] = int(last'.arg)
                 /\ conv'[last'.user].admin = SELECT_WITHDRAW_ACTION]_vars

\* the step handled the callback data of a button of the review keyboard for
\* the submission under review
Decided(data) ==
    \/ /\ last'.op = "admin_handle_gmail_action"
       /\ last'.arg = DecisionOf(data)
       /\ MatchesGmailAction(data)
    \/ /\ last'.op = "button_handler"
       /\ last'.arg = data

\* C31: each of the three decisions of the review keyboard takes effect on the
\* submission under review: Approve leaves its status 'success', Reject
\* 'rejected' and Set Pending 'pending'.
C31_EveryDecisionTakesEffect ==
    [][\A data \in ReviewButtons :
          Decided(data)
             => gmail_submissions'[user_data[last'.user]["review_gid"]].status
                  = DecisionOf(data)]_vars

\* C32: when the edit-setting flow for Gmail price, minimum withdraw or daily
\* bonus is completed with a numeric value v, get_setting of the key the
\* business logic reads (gmail_price, min_withdraw, daily_bonus_amount)
\* returns v afterwards.
C32_EditedSettingIsTheOneRead ==
    [][\A data \in SettingData :
          (/\ last'.op = "admin_edit_setting_val"
           /\ last'.ret = "updated"
           /\ last'.pre = LastPart(data))
             => /\ ReadKeyOf(data) \in DOMAIN settings'
                /\ float(settings'[ReadKeyOf(data)]) = float(last'.arg)]_vars

\* C33: in every reachable state no user's balance is negative.
C33_BalanceNotNegative ==
    \A u \in DOMAIN users : users[u].balance >= 0

\* the same while every submission was made by a user who had a row: violated
\* as well, by a withdrawal request between an approval and its reversal
C33_KnownOwnerBalanceNotNegative ==
    (\A i \in DOMAIN audit.owner_known : audit.owner_known[i])
       => \A u \in DOMAIN users : users[u].balance >= 0

====
